---- MODULE Spec2Model ----
(***************************************************************************)
(* Model of OnlineMEME.py: the indicator-matrix encoding (sequenceToI),    *)
(* the two likelihoods (pI_motif, pI_background), the responsibility       *)
(* (Z0_I) and the single-pass online EM loop (Online_EM).                  *)
(*                                                                         *)
(* Numbers.  The program computes in IEEE double precision.  The model     *)
(* computes the same expressions in exact rational arithmetic and keeps    *)
(* the two non-finite outcomes of a float division (NaN for 0/0, Inf for   *)
(* x/0).  A value is a record [k, n, d]:                                   *)
(*    k = "fin"  the rational n/d in lowest terms, d > 0                   *)
(*    k = "nan"  IEEE NaN                                                  *)
(*    k = "inf"  IEEE infinity with sign n                                 *)
(*    k = "big"  a value the model does not track: its numerator or        *)
(*               denominator exceeds MaxMag, or it was computed from such  *)
(*               a value.  Nothing is claimed about it.                    *)
(*    k = "none" a local that has not been assigned yet                    *)
(***************************************************************************)
EXTENDS Integers, Sequences, FiniteSets, TLC

\* ---------------------------------------------------------------- bounds
\* longest input collection Y that is explored
MaxSeqs == 2
\* largest numerator / denominator the exact arithmetic tracks
MaxMag == 1000000000

\* ------------------------------------------------------- exact arithmetic
\* Python evaluates an operand once, before the operation: F is applied to
\* the values of x and y
Strict1(F(_), x) == CHOOSE r \in {F(u) : u \in {x}} : TRUE
Strict2(F(_, _), x, y) == CHOOSE r \in {F(u, v) : u \in {x}, v \in {y}} : TRUE

Abs(x) == IF x < 0 THEN 0 - x ELSE x

RECURSIVE GCD(_, _)
GCDStep(x, y) == IF y = 0 THEN x ELSE GCD(y, x % y)
\* the greatest common divisor of two naturals
GCD(x, y) == Strict2(GCDStep, x, y)

NaN == [k |-> "nan", n |-> 0, d |-> 0]
Big == [k |-> "big", n |-> 0, d |-> 0]
NoVal == [k |-> "none", n |-> 0, d |-> 0]
Inf(s) == [k |-> "inf", n |-> s, d |-> 0]

Reduce(num, den, g) ==
    IF Abs(num) \div g > MaxMag \/ den \div g > MaxMag
    THEN Big
    ELSE [k |-> "fin", n |-> num \div g, d |-> den \div g]

RatOf(num, den) == Strict1(LAMBDA g : Reduce(num, den, g), GCD(Abs(num), den))

\* the rational num/den, den > 0, in lowest terms
Rat(num, den) == Strict2(RatOf, num, den)

Zero == [k |-> "fin", n |-> 0, d |-> 1]
One == [k |-> "fin", n |-> 1, d |-> 1]

Sgn(x) == IF x < 0 THEN 0 - 1 ELSE IF x > 0 THEN 1 ELSE 0

\* x * y of two naturals stays within MaxMag
FitsMul(x, y) == x = 0 \/ y <= MaxMag \div x

Neg(x) == IF x.k \in {"fin", "inf"} THEN [x EXCEPT !.n = 0 - x.n] ELSE x

\* the sum of two rationals, g the greatest common divisor of their denominators
AddFin(x, y, g) ==
    IF /\ FitsMul(x.d \div g, y.d)
       /\ FitsMul(Abs(x.n), y.d \div g)
       /\ FitsMul(Abs(y.n), x.d \div g)
    THEN Rat(x.n * (y.d \div g) + y.n * (x.d \div g), (x.d \div g) * y.d)
    ELSE Big

AddOf(x, y) ==
    IF x.k = "nan" \/ y.k = "nan" THEN NaN
    ELSE IF x.k = "inf" /\ y.k = "inf" THEN (IF x.n = y.n THEN x ELSE NaN)
    ELSE IF x.k = "inf" THEN x
    ELSE IF y.k = "inf" THEN y
    ELSE IF x.k = "big" \/ y.k = "big" THEN Big
    ELSE Strict1(LAMBDA g : AddFin(x, y, g), GCD(x.d, y.d))

\* float addition x + y
Add(x, y) == Strict2(AddOf, x, y)

\* float subtraction x - y
Sub(x, y) == Add(x, Neg(y))

\* the product of two rationals, g1 = gcd(|x.n|, y.d) and g2 = gcd(|y.n|, x.d)
MulFin(x, y, g1, g2) ==
    IF FitsMul(Abs(x.n) \div g1, Abs(y.n) \div g2) /\ FitsMul(x.d \div g2, y.d \div g1)
    THEN [k |-> "fin", n |-> (x.n \div g1) * (y.n \div g2),
          d |-> (x.d \div g2) * (y.d \div g1)]
    ELSE Big

MulOf(x, y) ==
    IF x.k = "nan" \/ y.k = "nan" THEN NaN
    ELSE IF x.k = "big" \/ y.k = "big" THEN Big
    ELSE IF x.k = "inf" \/ y.k = "inf"
         THEN (IF x.n = 0 \/ y.n = 0 THEN NaN ELSE Inf(Sgn(x.n) * Sgn(y.n)))
    ELSE Strict2(LAMBDA g1, g2 : MulFin(x, y, g1, g2),
                 GCD(Abs(x.n), y.d), GCD(Abs(y.n), x.d))

\* float multiplication x * y
Mul(x, y) == Strict2(MulOf, x, y)

DivOf(x, y) ==
    IF x.k = "nan" \/ y.k = "nan" THEN NaN
    ELSE IF x.k = "big" \/ y.k = "big" THEN Big
    ELSE IF x.k = "inf" THEN (IF y.k = "inf" THEN NaN
                              ELSE Inf(IF y.n < 0 THEN 0 - x.n ELSE x.n))
    ELSE IF y.k = "inf" THEN Zero
    ELSE IF y.n = 0 THEN (IF x.n = 0 THEN NaN ELSE Inf(Sgn(x.n)))
    ELSE Mul(x, [k |-> "fin", n |-> Sgn(y.n) * y.d, d |-> Abs(y.n)])

\* float division x / y: 0/0 is NaN and x/0 is an infinity, neither raises
Div(x, y) == Strict2(DivOf, x, y)

IsFin(x) == x.k = "fin"
InUnit(x) == x.k = "fin" /\ 0 <= x.n /\ x.n <= x.d

\* ------------------------------------------------------------- matrices
\* the 4 nucleotides, in the column order of every PWM
d == <<"A", "C", "G", "T">>
Alphabet == {d[j] : j \in 1..Len(d)}

\* the online step size
step == [k |-> "fin", n |-> 17, d |-> 20]

\* a numpy array holds its values: the entries of f, each computed once
Array(f) == f \o <<>>

RECURSIVE SumTo(_, _)
\* f[1] + ... + f[k], added left to right
SumTo(f, k) == IF k = 0 THEN Zero ELSE Add(SumTo(f, k - 1), f[k])

\* numpy's row.sum() of one matrix row
RowSum(row) == SumTo(row, Len(row))

\* numpy's M.sum(axis = 0): the column sums of a matrix
ColSums(M) ==
    Array([j \in 1..Len(d) |-> SumTo([i \in 1..Len(M) |-> M[i][j]], Len(M))])

\* the update with the running average not discounted: s + step*ds
MatStepNoDecay(s, ds) ==
    Array([i \in 1..Len(s) |->
             Array([j \in 1..Len(d) |-> Add(s[i][j], Mul(step, ds[i][j]))])])

\* s + step*(ds - s), elementwise on two matrices of the same shape
MatStep(s, ds) ==
    Array([i \in 1..Len(s) |->
             Array([j \in 1..Len(d) |-> Add(s[i][j], Mul(step, Sub(ds[i][j], s[i][j])))])])

\* z * I: a scalar times a boolean matrix (True is 1, False is 0)
Scale(z, I) ==
    Array([i \in 1..Len(I) |->
             Array([j \in 1..Len(d) |-> Mul(z, IF I[i][j] THEN One ELSE Zero)])])

\* ------------------------------------------------------- pure functions
sequenceToI(X) == Array([i \in 1..Len(X) |-> Array([j \in 1..Len(d) |-> X[i] = d[j]])])

RECURSIVE ProdMasked(_, _, _)
\* theta[I].prod() over the first k cells in row-major order: the product of
\* the cells of theta that the boolean mask I selects (1 when it selects none)
ProdMasked(I, theta, k) ==
    IF k = 0 THEN One
    ELSE LET i == ((k - 1) \div Len(d)) + 1
             j == ((k - 1) % Len(d)) + 1
         IN  IF I[i][j] THEN Mul(ProdMasked(I, theta, k - 1), theta[i][j])
             ELSE ProdMasked(I, theta, k - 1)

\* a boolean mask indexes an array of the same shape only
ShapeOK(I, theta) == Len(I) = Len(theta)

\* a likelihood that an indicator row without a true entry forces to zero
pI_motif_Zeroing(I, theta_m) ==
    IF \E i \in 1..Len(I) : \A j \in 1..Len(d) : ~I[i][j]
    THEN Zero
    ELSE ProdMasked(I, theta_m, Len(I) * Len(d))

pI_motif(I, theta_m) == ProdMasked(I, theta_m, Len(I) * Len(d))

pI_background(I, theta_b) == ProdMasked(I, theta_b, Len(I) * Len(d))

\* the two weighted likelihoods of Z0_I
Z0_a(I, theta_m, lambda_m) == Mul(pI_motif(I, theta_m), lambda_m)
Z0_b(I, theta_b, lambda_m) == Mul(pI_background(I, theta_b), Sub(One, lambda_m))

\* the posterior odds a/b in place of the posterior probability a/(a + b)
Z0_I_Odds(I, theta_m, theta_b, lambda_m) ==
    Div(Z0_a(I, theta_m, lambda_m), Z0_b(I, theta_b, lambda_m))

Z0_I(I, theta_m, theta_b, lambda_m) ==
    Strict2(LAMBDA za, zb : Div(za, Add(za, zb)),
            Z0_a(I, theta_m, lambda_m), Z0_b(I, theta_b, lambda_m))

\* ------------------------------------------------- one pass of the loop
\* theta_background/theta_background.sum(): the counts over their total
Normalise(cols) ==
    Strict2(LAMBDA c, total : Array([j \in 1..Len(d) |-> Div(c[j], total)]),
            cols, RowSum(cols))

\* the M-step from the updated accumulators: the model and the locals
MStep(m, Iy, z, s1_1n, s1_2n, s2_2n) ==
    Strict1(LAMBDA theta_background :
                [s1_1 |-> s1_1n, s1_2 |-> s1_2n, s2_2 |-> s2_2n,
                 lambda_motif |-> s1_1n, theta_motif |-> s1_2n,
                 theta_background_matrix |->
                     Array([i \in 1..Len(m.theta_motif) |-> theta_background]),
                 I |-> Iy, ds1_1 |-> z,
                 p_motif |-> pI_motif(Iy, m.theta_motif),
                 p_background |-> pI_background(Iy, m.theta_background_matrix),
                 a |-> Z0_a(Iy, m.theta_motif, m.lambda_motif),
                 b |-> Z0_b(Iy, m.theta_background_matrix, m.lambda_motif),
                 n |-> m.n + 1],
            Strict1(Normalise, ColSums(s2_2n)))

\* the update of the three accumulators by the one-sequence estimates
Accumulate(m, Iy, z, ds1_2, ds2_2) ==
    Strict2(LAMBDA s1_2n, s2_2n :
                Strict1(LAMBDA s1_1n : MStep(m, Iy, z, s1_1n, s1_2n, s2_2n),
                        Add(m.s1_1, Mul(step, Sub(z, m.s1_1)))),
            Strict2(MatStep, m.s1_2, ds1_2),
            Strict2(MatStep, m.s2_2, ds2_2))

\* the E-step from the responsibility z of the encoded sequence Iy
EStep(m, Iy, z) ==
    Strict2(LAMBDA ds1_2, ds2_2 : Accumulate(m, Iy, z, ds1_2, ds2_2),
            Scale(z, Iy), Strict1(LAMBDA w : Scale(w, Iy), Sub(One, z)))

\* The body of the for loop of Online_EM on the locals m and the sequence y,
\* whose length is that of the PWMs: the values of the locals after it.
LoopBody(m, y) ==
    Strict2(LAMBDA mv, Iy :
                Strict1(LAMBDA z : EStep(mv, Iy, z),
                        Z0_I(Iy, mv.theta_motif, mv.theta_background_matrix,
                             mv.lambda_motif)),
            m, sequenceToI(y))

\* the locals of Online_EM before the loop, from its three model arguments
Entry(arg) ==
    [s1_1 |-> arg.lambda_motif, s1_2 |-> arg.theta_motif,
     s2_2 |-> arg.theta_background_matrix,
     lambda_motif |-> arg.lambda_motif, theta_motif |-> arg.theta_motif,
     theta_background_matrix |-> arg.theta_background_matrix,
     I |-> <<>>, ds1_1 |-> NoVal, p_motif |-> NoVal, p_background |-> NoVal,
     a |-> NoVal, b |-> NoVal, n |-> 1]

\* the loop of Online_EM taking the sequence y in the state prev
RunStep(prev, y) ==
    IF prev.pc = "raised" THEN prev
    ELSE IF ~ShapeOK(sequenceToI(y), prev.m.theta_motif)
         THEN [m |-> [prev.m EXCEPT !.I = sequenceToI(y)], pc |-> "raised"]
    ELSE [m |-> LoopBody(prev.m, y), pc |-> "loop"]

RECURSIVE Run(_, _)
\* Online_EM as a function: the locals after the loop has consumed the
\* sequences Ys in order from the arguments arg0.  pc is "raised" when a
\* sequence made the boolean indexing fail.
Run(arg0, Ys) ==
    IF Ys = <<>> THEN [m |-> Entry(arg0), pc |-> "loop"]
    ELSE Strict2(RunStep, Run(arg0, SubSeq(Ys, 1, Len(Ys) - 1)), Ys[Len(Ys)])

\* ------------------------------------------------------------- inputs
Half == [k |-> "fin", n |-> 1, d |-> 2]
Quarter == [k |-> "fin", n |-> 1, d |-> 4]

\* the PWM that puts all the mass on the letters of the sequence s
OneHot(s) ==
    Array([i \in 1..Len(s) |-> Array([j \in 1..Len(d) |-> IF s[i] = d[j] THEN One ELSE Zero])])
\* the matrix meme() builds for the background: 0.25 everywhere
Uniform(w) == Array([i \in 1..w |-> Array([j \in 1..Len(d) |-> Quarter])])
\* a PWM with zero columns: A and C with probability one half each
HalfAC(w) == Array([i \in 1..w |-> <<Half, Half, Zero, Zero>>])

\* the sequence ACGTACGT... of length w
Probe(w) == Array([i \in 1..w |-> d[((i - 1) % Len(d)) + 1]])

Model(tm, tb, lm) ==
    [theta_motif |-> tm, theta_background_matrix |-> tb, lambda_motif |-> lm]

\* the scenario of the specification: the motif "ACGT", uniform background
Scenario == Model(OneHot(Probe(Len(d))), Uniform(Len(d)), Half)

\* the initial guesses Online_EM is called with
Configs ==
    {Model(OneHot(Probe(w)), Uniform(w), lm) : w \in {1, 2}, lm \in {Zero, Half, One}}
    \cup {Model(Uniform(2), Uniform(2), Half), Model(HalfAC(2), HalfAC(2), Half), Scenario}

\* the symbols put in place of one of the probe: a nucleotide, and the
\* wildcard N that a FASTA record may hold
Replacements == {"T", "N"}

\* the sequences fed to a model of width w: the probe, the probe with one
\* position replaced, and the probe one symbol longer or shorter
Pool(w) ==
    {Probe(w)} \cup {[Probe(w) EXCEPT ![p] = c] : p \in 1..w, c \in Replacements}
    \cup {Probe(w + 1)} \cup (IF w > 1 THEN {Probe(w - 1)} ELSE {})

\* the collections Y: up to MaxSeqs sequences of the pool
Inputs(arg0) == UNION {[1..k -> Pool(Len(arg0.theta_motif))] : k \in 0..MaxSeqs}

\* ------------------------------------------------------------- state
VARIABLES pc, arg, Y, idx, n, s1_1, s1_2, s2_2, lambda_motif, theta_motif,
          theta_background_matrix, I, ds1_1, p_motif, p_background, a, b, ret

locals == <<n, s1_1, s1_2, s2_2, lambda_motif, theta_motif,
            theta_background_matrix, I, ds1_1, p_motif, p_background, a, b>>
vars == <<pc, arg, Y, idx, ret, locals>>

\* the motif width
W == Len(theta_motif)

\* the locals as one record
Locals ==
    [s1_1 |-> s1_1, s1_2 |-> s1_2, s2_2 |-> s2_2, lambda_motif |-> lambda_motif,
     theta_motif |-> theta_motif, theta_background_matrix |-> theta_background_matrix,
     I |-> I, ds1_1 |-> ds1_1, p_motif |-> p_motif, p_background |-> p_background,
     a |-> a, b |-> b, n |-> n]

Init ==
    /\ arg \in Configs
    /\ Y \in Inputs(arg)
    /\ pc = "loop"
    /\ idx = 0
    /\ ret = <<>>
    /\ n = Entry(arg).n
    /\ s1_1 = Entry(arg).s1_1
    /\ s1_2 = Entry(arg).s1_2
    /\ s2_2 = Entry(arg).s2_2
    /\ lambda_motif = Entry(arg).lambda_motif
    /\ theta_motif = Entry(arg).theta_motif
    /\ theta_background_matrix = Entry(arg).theta_background_matrix
    /\ I = Entry(arg).I
    /\ ds1_1 = Entry(arg).ds1_1
    /\ p_motif = Entry(arg).p_motif
    /\ p_background = Entry(arg).p_background
    /\ a = Entry(arg).a
    /\ b = Entry(arg).b

\* one iteration of the for loop on a sequence as long as the motif
Iterate ==
    /\ pc = "loop"
    /\ idx < Len(Y)
    /\ ShapeOK(sequenceToI(Y[idx + 1]), theta_motif)
    /\ \E nm \in {LoopBody(Locals, Y[idx + 1])} :
           /\ s1_1' = nm.s1_1
           /\ s1_2' = nm.s1_2
           /\ s2_2' = nm.s2_2
           /\ lambda_motif' = nm.lambda_motif
           /\ theta_motif' = nm.theta_motif
           /\ theta_background_matrix' = nm.theta_background_matrix
           /\ I' = nm.I
           /\ ds1_1' = nm.ds1_1
           /\ p_motif' = nm.p_motif
           /\ p_background' = nm.p_background
           /\ a' = nm.a
           /\ b' = nm.b
           /\ n' = nm.n
    /\ idx' = idx + 1
    /\ UNCHANGED <<pc, arg, Y, ret>>

\* the sequence is encoded, then theta_motif[I] raises IndexError: the
\* boolean index does not match the PWM's shape
RaiseIndexError ==
    /\ pc = "loop"
    /\ idx < Len(Y)
    /\ ~ShapeOK(sequenceToI(Y[idx + 1]), theta_motif)
    /\ I' = sequenceToI(Y[idx + 1])
    /\ pc' = "raised"
    /\ idx' = idx + 1
    /\ UNCHANGED <<arg, Y, ret, n, s1_1, s1_2, s2_2, lambda_motif, theta_motif,
                   theta_background_matrix, ds1_1, p_motif, p_background, a, b>>

\* a return with the two matrices exchanged
ReturnBackgroundFirst ==
    /\ pc = "loop"
    /\ idx = Len(Y)
    /\ pc' = "returned"
    /\ ret' = <<theta_background_matrix, theta_motif, lambda_motif>>
    /\ UNCHANGED <<arg, Y, idx, locals>>

\* a return that does not wait for the input to be exhausted
ReturnEarly ==
    /\ pc = "loop"
    /\ idx <= Len(Y)
    /\ pc' = "returned"
    /\ ret' = <<theta_motif, theta_background_matrix, lambda_motif>>
    /\ UNCHANGED <<arg, Y, idx, locals>>

\* the input is exhausted: the loop ends and the model is returned
Return ==
    /\ pc = "loop"
    /\ idx = Len(Y)
    /\ pc' = "returned"
    /\ ret' = <<theta_motif, theta_background_matrix, lambda_motif>>
    /\ UNCHANGED <<arg, Y, idx, locals>>

Next == Iterate \/ RaiseIndexError \/ Return

Spec == Init /\ [][Next]_vars

\* a for loop over a finite collection keeps stepping until it ends
FairSpec == Spec /\ WF_vars(Next)

\* ------------------------------------------------------ claim vocabulary
\* the sequences the loop has taken from Y so far
Consumed == SubSeq(Y, 1, idx)

\* a sequence of the data model: W symbols of the 4-letter alphabet
WellFormed(s) == Len(s) = W /\ \A i \in 1..Len(s) : s[i] \in Alphabet

AllValid == \A k \in 1..idx : WellFormed(Y[k])

\* no NaN or infinity in the accumulators and the mixture weight
FiniteState ==
    /\ IsFin(s1_1)
    /\ IsFin(lambda_motif)
    /\ \A i \in 1..W : \A j \in 1..Len(d) : IsFin(s1_2[i][j]) /\ IsFin(s2_2[i][j])

\* the value is tracked
Known(x) == x.k # "big"

\* x is in [0,1], as far as the model tracks it
InUnitK(x) == Known(x) => InUnit(x)

\* the model the last iteration read
Prev == Run(arg, SubSeq(Y, 1, idx - 1)).m

RECURSIVE Pow(_, _)
Pow(x, k) == IF k = 0 THEN One ELSE Mul(Pow(x, k - 1), x)

\* the column of a letter of the alphabet
ColumnOf(c) == CHOOSE j \in 1..Len(d) : d[j] = c

RECURSIVE ProdRecognized(_, _, _)
\* the product of theta[i][column of s[i]] over the positions i <= k of s
\* that hold a letter of the alphabet
ProdRecognized(s, theta, k) ==
    IF k = 0 THEN One
    ELSE IF s[k] \in Alphabet
         THEN Mul(ProdRecognized(s, theta, k - 1), theta[k][ColumnOf(s[k])])
         ELSE ProdRecognized(s, theta, k - 1)

HasUnknown(s) == \E i \in 1..Len(s) : s[i] \notin Alphabet

\* ------------------------------------------------------------- claims

\* C1: started with a motif PWM whose rows sum to 1, after the update for
\* every consumed sequence (length W, alphabet ACGT) every row of
\* theta_motif still sums to 1.
C1_MotifRowsSumToOne ==
    (pc # "raised" /\ AllValid /\ FiniteState)
        => \A i \in 1..W : Known(RowSum(theta_motif[i])) => RowSum(theta_motif[i]) = One

\* C2: started with lambda_motif in [0,1] and PWM entries in [0,1], after any
\* number of consumed sequences lambda_motif is in [0,1] and the
\* responsibility Z0_I computed is in [0,1].
C2_RangeInvariant ==
    (pc # "raised" /\ AllValid)
        => InUnitK(lambda_motif) /\ (idx >= 1 => InUnitK(ds1_1))

\* C3: given zero sequences, Online_EM does not fail and returns exactly the
\* initial guess (theta_motif, theta_background_matrix, lambda_motif).
C3_EmptyInput ==
    Y = <<>> =>
        /\ pc # "raised"
        /\ pc = "returned" =>
              ret = <<arg.theta_motif, arg.theta_background_matrix, arg.lambda_motif>>

C3_Witness == Y = <<>> /\ pc = "returned"

\* C4: when the weighted likelihoods a and b are both zero, Z0_I returns a
\* defined value in [0,1] and no NaN enters lambda_motif, s1_2 or s2_2.
C4_DegenerateFallback ==
    (idx >= 1 /\ pc # "raised" /\ a = Zero /\ b = Zero)
        => /\ InUnit(ds1_1)
           /\ lambda_motif.k # "nan"
           /\ \A i \in 1..W : \A j \in 1..Len(d) : s1_2[i][j].k # "nan" /\ s2_2[i][j].k # "nan"

\* C5: a sequence whose length differs from W or that holds a symbol
\* outside ACGT is reported as a failure, and the model state is not
\* updated from it.  (That the failure comes before the encoding is left
\* out: the statement fails without it.)
C5_MalformedRejected ==
    \A k \in 1..idx : ~WellFormed(Y[k]) =>
        /\ pc = "raised"
        /\ k = idx
        /\ n = k
        /\ <<s1_1, s1_2, s2_2, lambda_motif, theta_motif, theta_background_matrix>>
              = <<Prev.s1_1, Prev.s1_2, Prev.s2_2, Prev.lambda_motif, Prev.theta_motif,
                  Prev.theta_background_matrix>>

\* C6: one update per sequence, in input order, each reading the state the
\* previous one left; the loop returns after exactly Len(Y) updates, never
\* earlier, and it does return.
C6_SingleOrderedPass ==
    /\ [](Locals = Run(arg, Consumed).m)
    /\ [](pc = "returned" =>
            /\ idx = Len(Y)
            /\ n = Len(Y) + 1
            /\ ret = <<theta_motif, theta_background_matrix, lambda_motif>>)
    /\ ((\A k \in 1..Len(Y) : Len(Y[k]) = W) => <>(pc = "returned"))

C6_Witness == pc = "returned" /\ Len(Y) >= 2 /\ Y[1] # Y[2] /\ AllValid

\* C7: after the update for every consumed sequence, the rows of
\* theta_background_matrix are identical, each is the column sums of s2_2
\* divided by their total, sums to 1 and has its entries in [0,1].
C7_BackgroundMatrix ==
    (idx >= 1 /\ pc # "raised" /\ AllValid) =>
        \A i \in 1..W :
            /\ theta_background_matrix[i] = theta_background_matrix[1]
            /\ \A j \in 1..Len(d) :
                  /\ theta_background_matrix[i][j]
                        = Div(ColSums(s2_2)[j], RowSum(ColSums(s2_2)))
                  /\ InUnitK(theta_background_matrix[i][j])
            /\ Known(RowSum(theta_background_matrix[i]))
                  => RowSum(theta_background_matrix[i]) = One

\* C8: the scenario W = 4, motif one-hot "ACGT", uniform background,
\* lambda_motif = 0.5, step 0.85, fed the single sequence "ACGT": Z is
\* 256/257 (motif likelihood 1, background likelihood 0.25^4), the returned
\* lambda_motif is in (0.5, 1], the returned motif PWM is non-zero only on
\* the one-hot positions and the returned background is 0.25 everywhere.
C8_Scenario ==
    (arg = Scenario /\ Y = <<Probe(Len(d))>> /\ pc = "returned") =>
        /\ p_motif = One
        /\ p_background = Rat(1, 256)
        /\ ds1_1 = Rat(256, 257)
        /\ InUnit(ret[3])
        /\ 2 * ret[3].n > ret[3].d
        /\ \A i \in 1..Len(d) : \A j \in 1..Len(d) :
              (i # j) => ret[1][i][j] = Zero
        /\ ret[2] = Uniform(Len(d))

C8_Witness == arg = Scenario /\ Y = <<Probe(Len(d))>> /\ pc = "returned"

\* C9 as stated: for a sequence with a symbol outside ACGT the indicator
\* row of that position has no true entry and the likelihoods computed by
\* pI_motif and pI_background are zero.
C9_UnknownSymbolZero ==
    (idx >= 1 /\ pc # "raised" /\ HasUnknown(Y[idx])) =>
        /\ \A i \in 1..W : Y[idx][i] \notin Alphabet => \A j \in 1..Len(d) : ~I[i][j]
        /\ p_motif = Zero
        /\ p_background = Zero

\* C9 amended: for a sequence with a symbol outside ACGT the indicator row
\* of that position has no true entry, and the likelihoods computed by
\* pI_motif and pI_background are the products of the PWM entries at the
\* positions that hold a recognised letter: the unrecognised position
\* contributes no factor.
C9_UnknownSymbolSkipped ==
    (idx >= 1 /\ pc # "raised" /\ HasUnknown(Y[idx])) =>
        /\ \A i \in 1..W : Y[idx][i] \notin Alphabet => \A j \in 1..Len(d) : ~I[i][j]
        /\ p_motif = ProdRecognized(Y[idx], Prev.theta_motif, W)
        /\ p_background = ProdRecognized(Y[idx], Prev.theta_background_matrix, W)

C9_Witness ==
    /\ idx >= 1 /\ pc # "raised" /\ HasUnknown(Y[idx])
    /\ IsFin(p_motif) /\ p_motif # Zero
    /\ IsFin(p_background) /\ p_background # Zero

====
